---- MODULE Spec2Model ----
(***************************************************************************)
(* Action-selection engine of lang_wm/webagent/agent/agent.py:             *)
(* PromptAgent.next_action (single-shot with retry) and                    *)
(* SearchAgent.next_action (sample and vote).                              *)
(*                                                                         *)
(* Texts are sequences of tokens, so that prefixing, extraction and        *)
(* parsing are computations and not identities.  Intents and captions are  *)
(* strings, because the caption block is a string format.                  *)
(***************************************************************************)
EXTENDS Integers, Sequences, FiniteSets, TLC

(***************************************************************************)
(* Bounds of the model.                                                    *)
(***************************************************************************)
MaxRetry == 2
MaxK == 1
MaxBatch == 3
\* a branching factor above 10, where twice the factor passes 20
WideK == 11
\* the longest script handed to the fixed-script agent
MaxLines == 2

(***************************************************************************)
(* Inputs.                                                                 *)
(***************************************************************************)
\* the three tags next_action recognises, and one it does not
ActionSetTags == {"id_accessibility_tree", "playwright", "som", "html"}

\* instruction["meta_data"].get("force_prefix", ""): absent (empty) or set
ForcePrefixes == {<< >>, <<"In summary, the next action is">>}

\* the completions the model client may hand back
ModelTexts ==
  { <<"click [1]">>,
    <<"Let me think.", "click [1]">>,
    <<"type [2]">>,
    <<"page.click">>,
    <<"Let me think.">> }

\* the images a caller may pass: none, the first, or both
ImagePool == <<"cat.png", "dog.png">>
Intents == {"buy a hat"}

\* the caller's trajectory and meta_data, as handed to next_action
Trajectories == {<<"observation 0">>}
MetaDatas == {[action_history |-> <<"None">>]}

\* the branching factors a caller asks for
BranchingFactors == (1..MaxK) \cup {WideK}

\* the value of a local that was never assigned
Unbound == <<"<unbound local>">>
\* the value of a dict entry that was never set
NoProb == << >>

(***************************************************************************)
(* Collaborators (agent.prompts, browser_env.actions, llms,                *)
(* evaluation_harness): not part of the engine.                            *)
(***************************************************************************)
ActionPatterns == {"click [1]", "type [2]", "page.click"}
IdGrammar == {"click [1]", "type [2]"}
PlaywrightGrammar == {"page.click"}

RECURSIVE FirstPattern(_)
FirstPattern(text) ==
  IF text = << >> THEN [ok |-> FALSE, value |-> ""]
  ELSE IF Head(text) \in ActionPatterns THEN [ok |-> TRUE, value |-> Head(text)]
  ELSE FirstPattern(Tail(text))

\* prompt_constructor.extract_action: the first action pattern of the text,
\* ActionParsingError (ok = FALSE) when there is none
extract_action(response) == FirstPattern(response)

ActionTypeOf(s) ==
  CASE s = "click [1]" -> "CLICK"
    [] s = "type [2]" -> "TYPE"
    [] s = "page.click" -> "PAGE_CLICK"
    [] OTHER -> "NONE"

ElementOf(s) ==
  CASE s = "click [1]" -> "1"
    [] s = "type [2]" -> "2"
    [] OTHER -> ""

NewAction(s) ==
  [action_type |-> ActionTypeOf(s), element_id |-> ElementOf(s),
   raw_prediction |-> Unbound, prob |-> NoProb]

\* browser_env.actions.create_id_based_action
create_id_based_action(s) ==
  IF s \in IdGrammar THEN [kind |-> "action", action |-> NewAction(s)]
  ELSE [kind |-> "ActionParsingError", action |-> NewAction("")]

\* browser_env.actions.create_playwright_action
create_playwright_action(s) ==
  IF s \in PlaywrightGrammar THEN [kind |-> "action", action |-> NewAction(s)]
  ELSE [kind |-> "ActionParsingError", action |-> NewAction("")]

\* browser_env.actions.create_none_action
create_none_action == NewAction("")

\* the captioner: one caption per image
captioning_fn_of(image) ==
  CASE image = "cat.png" -> "A cat"
    [] image = "dog.png" -> "A dog"
    [] OTHER -> "An image"

(***************************************************************************)
(* State.                                                                  *)
(***************************************************************************)
VARIABLES
  agent_type,        \* "prompt" (PromptAgent) or "search" (SearchAgent)
  action_set_tag,    \* self.action_set_tag
  max_retry,         \* self.lm_config.gen_config["max_retry"]
  force_prefix,      \* prompt_constructor.instruction["meta_data"]["force_prefix"]
  captioning_fn,     \* TRUE: self.captioning_fn is set; FALSE: it is None
  pc,                \* "idle", "loop" (the while loop), "batch" (the for loop), "done"
  trajectory,        \* the caller's trajectory
  meta_data,         \* the caller's meta_data
  arg_intent,        \* the caller's intent
  images,            \* the caller's images
  branching_factor,  \* the caller's branching_factor
  intent,            \* the local intent, rewritten by the caption block
  warned,            \* the captioner warning was printed in this call; it hangs
                     \* on self.multimodal_inputs, which nothing else modelled
                     \* here reads and which is drawn where it is read
  n,                 \* the attempt (round) counter
  response,          \* the local response
  all_actions,       \* dict key -> Action, in insertion order
  parsed_actions_count, \* dict key -> tally, in insertion order
  ret,               \* what the call handed to its caller
  outcome,           \* "running", "returned", or the exception that escaped
  queries,           \* call_llm invocations of this call
  num_outputs,       \* the num_outputs argument of the last call_llm of this
                     \* call; 0: no query yet, or the argument was not passed
  self_actions,      \* TeacherForcingAgent: self.actions, bound once set_actions
                     \* has stored a list
  action_seq,        \* TeacherForcingAgent: the argument of the set_actions that
                     \* stored self.actions, and the tag it ran under
  calls,             \* TeacherForcingAgent: the next_action calls that returned
                     \* since then
  history            \* the texts call_llm gave: PromptAgent, one per attempt of
                     \* this call; SearchAgent, the samples of this round read so far

vars == <<agent_type, action_set_tag, max_retry, force_prefix, captioning_fn,
          pc, trajectory, meta_data, arg_intent, images, branching_factor,
          intent, warned, n, response, all_actions, parsed_actions_count,
          ret, outcome, queries, num_outputs, self_actions, action_seq, calls,
          history>>

config == <<agent_type, action_set_tag, max_retry, force_prefix, captioning_fn>>
args == <<trajectory, meta_data, arg_intent, images, branching_factor>>
teacher == <<self_actions, action_seq, calls>>

\* an attribute that was never assigned
NoAttribute == "<no attribute>"

\* the fixed-script agent's part of the state when no script was stored
NoScript ==
  /\ self_actions = [bound |-> FALSE, value |-> << >>]
  /\ action_seq = [form |-> "list", lines |-> << >>, tag |-> NoAttribute]
  /\ calls = 0


(***************************************************************************)
(* Python dicts keep insertion order: a dict is a sequence of <<key, value>> *)
(* pairs with distinct keys.                                               *)
(***************************************************************************)
DictKeys(d) == [i \in 1..Len(d) |-> d[i][1]]

\* mutant: no key is ever found in the dict
DictHas_Never(d, k) == FALSE

DictHas(d, k) == \E i \in 1..Len(d) : d[i][1] = k

DictGet(d, k) == d[CHOOSE i \in 1..Len(d) : d[i][1] = k][2]

\* mutant: a key that is no longer the newest one is not written again
DictSet_OnlyNewest(d, k, v) ==
  IF DictHas(d, k)
  THEN [i \in 1..Len(d) |-> IF d[i][1] = k /\ i = Len(d) THEN <<k, v>> ELSE d[i]]
  ELSE Append(d, <<k, v>>)

\* d[k] = v: an existing key keeps its place, a new key goes last
DictSet(d, k, v) ==
  IF DictHas(d, k)
  THEN [i \in 1..Len(d) |-> IF d[i][1] = k THEN <<k, v>> ELSE d[i]]
  ELSE Append(d, <<k, v>>)

(***************************************************************************)
(* The caption block, the same text in both agents.                        *)
(***************************************************************************)
RECURSIVE CaptionLoop(_, _, _)
\* the for loop over enumerate(images), from index image_i (0-based) on
CaptionLoop(imgs, image_i, image_input_caption) ==
  IF image_i >= Len(imgs) THEN image_input_caption
  ELSE
    LET cap == captioning_fn_of(imgs[image_i + 1])
        labelled ==
          IF image_i = 0
          THEN image_input_caption \o "Input image " \o ToString(image_i + 1)
                 \o ": \"" \o cap \o "\""
          ELSE image_input_caption \o "input image " \o ToString(image_i + 1)
                 \o ": \"" \o cap \o "\""
        separated == IF Len(imgs) > 1 THEN labelled \o ", " ELSE labelled
    IN CaptionLoop(imgs, image_i + 1, separated)

\* PromptAgent.next_action, "Caption the input image, if provided."
PromptCaptionIntent(imgs, captioner, the_intent) ==
  IF Len(imgs) > 0 /\ captioner
  THEN CaptionLoop(imgs, 0, "") \o "\nIntent: " \o the_intent
  ELSE the_intent

\* SearchAgent.next_action, "Caption the input image, if provided."
SearchCaptionIntent(imgs, captioner, the_intent) ==
  IF Len(imgs) > 0 /\ captioner
  THEN CaptionLoop(imgs, 0, "") \o "\nIntent: " \o the_intent
  ELSE the_intent

\* the WARNING print of the elif branch
CaptionWarning(imgs, captioner, multimodal) ==
  Len(imgs) > 0 /\ ~captioner /\ ~multimodal

(***************************************************************************)
(* The try block of both loops: tag dispatch to the action parser.         *)
(***************************************************************************)
\* mutant: the "som" branch is missing
CreateAction_NoSom(tag, parsed_response) ==
  IF tag = "id_accessibility_tree" THEN create_id_based_action(parsed_response)
  ELSE IF tag = "playwright" THEN create_playwright_action(parsed_response)
  ELSE [kind |-> "ValueError", action |-> NewAction("")]

\* if/elif/else on self.action_set_tag
CreateAction(tag, parsed_response) ==
  IF tag = "id_accessibility_tree" THEN create_id_based_action(parsed_response)
  ELSE IF tag = "playwright" THEN create_playwright_action(parsed_response)
  ELSE IF tag = "som" THEN create_id_based_action(parsed_response)
  ELSE [kind |-> "ValueError", action |-> NewAction("")]

\* response = f"{force_prefix}{response}"
Prefixed(prefix, text) == prefix \o text

\* PromptAgent: the try block; kind is "action" (break), "ActionParsingError"
\* (caught) or "ValueError" (escapes)
PromptTry(tag, resp) ==
  LET parsed_response == extract_action(resp) IN
  IF ~parsed_response.ok
  THEN [kind |-> "ActionParsingError", action |-> NewAction("")]
  ELSE LET made == CreateAction(tag, parsed_response.value) IN
       IF made.kind = "action"
       THEN [kind |-> "action",
             action |-> [made.action EXCEPT !.raw_prediction = resp]]
       ELSE made

\* mutant: the none action is returned without its raw text
PromptNone_NoRaw(resp) == create_none_action

\* PromptAgent: the except branch at exhaustion
PromptNone(resp) == [create_none_action EXCEPT !.raw_prediction = resp]

\* mutant: a failed query is swallowed and the loop goes round again
ClientFailure_Retried(count) ==
  [pc |-> "loop", outcome |-> "running", n |-> count]

\* call_llm sits outside the try block: when it raises, the exception leaves
\* next_action and the counter keeps its value
ClientFailure(count) ==
  [pc |-> "done", outcome |-> "ClientError", n |-> count]

\* mutant: one attempt too many
PromptExhausted_OffByOne(count, limit) == count > limit

\* PromptAgent: if n >= lm_config.gen_config["max_retry"]
PromptExhausted(count, limit) == count >= limit

(***************************************************************************)
(* Construction.                                                           *)
(***************************************************************************)
ImageLists == {SubSeq(ImagePool, 1, m) : m \in 0..Len(ImagePool)}

TypeOK ==
  /\ agent_type \in {"prompt", "search", "teacher_forcing"}
  /\ action_set_tag \in ActionSetTags \cup {NoAttribute}
  /\ max_retry \in 1..MaxRetry
  /\ force_prefix \in ForcePrefixes
  /\ captioning_fn \in BOOLEAN
  /\ pc \in {"idle", "loop", "batch", "done"}
  /\ n \in 0..MaxRetry
  /\ queries \in 0..MaxRetry
  /\ branching_factor \in BranchingFactors
  /\ outcome \in {"running", "returned", "ValueError", "UnboundLocalError",
                  "ClientError", "stored", "IndexError", "AttributeError"}
  /\ calls \in 0..MaxLines

\* the locals before the first statement of a call
FreshLocals ==
  /\ n = 0
  /\ response = Unbound
  /\ all_actions = << >>
  /\ parsed_actions_count = << >>
  /\ ret = << >>
  /\ outcome = "running"
  /\ queries = 0
  /\ num_outputs = 0
  /\ history = << >>

\* mutant: the counter is an attribute of the agent and outlives the call
EnterCall_KeepsCount ==
  /\ UNCHANGED n
  /\ response' = Unbound
  /\ all_actions' = << >>
  /\ parsed_actions_count' = << >>
  /\ ret' = << >>
  /\ outcome' = "running"
  /\ queries' = 0
  /\ num_outputs' = 0
  /\ history' = << >>

\* entering next_action: a new frame, nothing kept from the call before
EnterCall ==
  /\ n' = 0
  /\ response' = Unbound
  /\ all_actions' = << >>
  /\ parsed_actions_count' = << >>
  /\ ret' = << >>
  /\ outcome' = "running"
  /\ queries' = 0
  /\ num_outputs' = 0
  /\ history' = << >>

\* construct_agent: a PromptAgent or a SearchAgent, not yet called
Init ==
  /\ agent_type \in {"prompt", "search"}
  /\ action_set_tag \in ActionSetTags
  /\ max_retry \in 1..MaxRetry
  /\ force_prefix \in ForcePrefixes
  /\ captioning_fn \in BOOLEAN
  /\ pc = "idle"
  /\ trajectory \in Trajectories
  /\ meta_data \in MetaDatas
  /\ arg_intent \in Intents
  /\ images = << >>
  /\ branching_factor = 1
  /\ intent = arg_intent
  /\ warned = FALSE
  /\ FreshLocals
  /\ NoScript

\* next_action is left, by return or by an exception: its frame is gone and
\* the agent is as it was constructed
Return ==
  /\ UNCHANGED teacher
  /\ pc = "done"
  /\ pc' = "idle"
  /\ images' = << >>
  /\ branching_factor' = 1
  /\ intent' = arg_intent
  /\ warned' = FALSE
  /\ EnterCall
  /\ UNCHANGED <<config, trajectory, meta_data, arg_intent>>

(***************************************************************************)
(* PromptAgent.next_action                                                 *)
(***************************************************************************)
\* the call, up to "n = 0"
PromptNextAction ==
  /\ UNCHANGED teacher
  /\ agent_type = "prompt"
  /\ pc = "idle"
  /\ \E t \in Trajectories, md \in MetaDatas, i \in Intents,
        imgs \in ImageLists, multimodal_inputs \in BOOLEAN :
       /\ trajectory' = t
       /\ meta_data' = md
       /\ arg_intent' = i
       /\ images' = imgs
       /\ intent' = PromptCaptionIntent(imgs, captioning_fn, i)
       /\ warned' = CaptionWarning(imgs, captioning_fn, multimodal_inputs)
  /\ branching_factor' = 1
  /\ EnterCall
  /\ pc' = "loop"
  /\ UNCHANGED config

\* one pass of the while loop, and the return when it breaks
PromptAttempt ==
  /\ UNCHANGED teacher
  /\ agent_type = "prompt"
  /\ pc = "loop"
  /\ queries' = queries + 1
  /\ \/ \* call_llm raises
        /\ pc' = ClientFailure(n).pc
        /\ outcome' = ClientFailure(n).outcome
        /\ n' = ClientFailure(n).n
        /\ UNCHANGED <<response, ret, history>>
     \/ \E text \in ModelTexts :
          LET resp == Prefixed(force_prefix, text)
              tried == PromptTry(action_set_tag, resp)
          IN
          /\ response' = resp
          /\ n' = n + 1
          /\ history' = Append(history, text)
          /\ CASE tried.kind = "action" ->
                    /\ ret' = <<tried.action>>
                    /\ outcome' = "returned"
                    /\ pc' = "done"
               [] tried.kind = "ValueError" ->
                    /\ outcome' = "ValueError"
                    /\ pc' = "done"
                    /\ UNCHANGED ret
               [] OTHER ->
                    IF PromptExhausted(n + 1, max_retry)
                    THEN /\ ret' = <<PromptNone(resp)>>
                         /\ outcome' = "returned"
                         /\ pc' = "done"
                    ELSE UNCHANGED <<ret, outcome, pc>>
  /\ UNCHANGED <<config, args, intent, warned, all_actions,
                 parsed_actions_count, num_outputs>>

NextPrompt == PromptNextAction \/ PromptAttempt \/ Return

InitPrompt == Init /\ agent_type = "prompt"

SpecPrompt == InitPrompt /\ [][NextPrompt]_vars

\* a call that was started is run to its end
FairSpecPrompt == SpecPrompt /\ WF_vars(PromptAttempt)

(***************************************************************************)
(* SearchAgent.next_action                                                 *)
(***************************************************************************)
\* mutant: a sample whose key was seen before replaces the raw text of the
\* representative action
SearchTry_LastTextWins(tag, resp, actions, counts) ==
  LET parsed_response == extract_action(resp) IN
  IF ~parsed_response.ok
  THEN [kind |-> "ActionParsingError", actions |-> actions, counts |-> counts]
  ELSE LET key == parsed_response.value IN
       IF DictHas(actions, key)
       THEN [kind |-> "counted",
             actions |-> DictSet(actions, key,
                           [DictGet(actions, key) EXCEPT !.raw_prediction = resp]),
             counts |-> DictSet(counts, key, DictGet(counts, key) + 1)]
       ELSE LET made == CreateAction(tag, key) IN
            IF made.kind = "action"
            THEN [kind |-> "added",
                  actions |-> DictSet(actions, key,
                                [made.action EXCEPT !.raw_prediction = resp]),
                  counts |-> DictSet(counts, key, 1)]
            ELSE [kind |-> made.kind, actions |-> actions, counts |-> counts]

\* the try block of the for loop, on the two dicts; kind is "counted" (the
\* key was there), "added" (a new key), "ActionParsingError" (caught, the
\* sample is skipped) or "ValueError" (escapes)
SearchTry(tag, resp, actions, counts) ==
  LET parsed_response == extract_action(resp) IN
  IF ~parsed_response.ok
  THEN [kind |-> "ActionParsingError", actions |-> actions, counts |-> counts]
  ELSE LET key == parsed_response.value IN
       IF DictHas(actions, key)
       THEN [kind |-> "counted", actions |-> actions,
             counts |-> DictSet(counts, key, DictGet(counts, key) + 1)]
       ELSE LET made == CreateAction(tag, key) IN
            IF made.kind = "action"
            THEN [kind |-> "added",
                  actions |-> DictSet(actions, key,
                                [made.action EXCEPT !.raw_prediction = resp]),
                  counts |-> DictSet(counts, key, 1)]
            ELSE [kind |-> made.kind, actions |-> actions, counts |-> counts]

RECURSIVE InsertDesc_TiesNewestFirst(_, _, _)
\* mutant: an unstable sort, a key goes in front of the keys it ties with
InsertDesc_TiesNewestFirst(sorted, key, counts) ==
  IF sorted = << >> THEN <<key>>
  ELSE IF DictGet(counts, Head(sorted)) > DictGet(counts, key)
       THEN <<Head(sorted)>>
              \o InsertDesc_TiesNewestFirst(Tail(sorted), key, counts)
       ELSE <<key>> \o sorted

RECURSIVE InsertDesc(_, _, _)
\* key put into the sorted list behind every key whose tally is not smaller
InsertDesc(sorted, key, counts) ==
  IF sorted = << >> THEN <<key>>
  ELSE IF DictGet(counts, Head(sorted)) >= DictGet(counts, key)
       THEN <<Head(sorted)>> \o InsertDesc(Tail(sorted), key, counts)
       ELSE <<key>> \o sorted

RECURSIVE SortFrom(_, _, _)
SortFrom(keys, sorted, counts) ==
  IF keys = << >> THEN sorted
  ELSE SortFrom(Tail(keys), InsertDesc(sorted, Head(keys), counts), counts)

\* sorted(parsed_actions_count, key=parsed_actions_count.__getitem__,
\*        reverse=True): a stable sort of the keys, largest tally first
SortedByCount(counts) == SortFrom(DictKeys(counts), << >>, counts)

\* mutant: the slice keeps one key too many
Slice_OneMore(seq, k) ==
  SubSeq(seq, 1, IF k + 1 < Len(seq) THEN k + 1 ELSE Len(seq))

\* [:branching_factor], for branching_factor >= 0
Slice(seq, k) == SubSeq(seq, 1, IF k < Len(seq) THEN k ELSE Len(seq))

\* top_actions
TopActions(counts, k) == Slice(SortedByCount(counts), k)

\* mutant: the keys are counted, not their tallies
SumCounts_KeyCount(keys, counts) == Len(keys)

RECURSIVE SumCounts(_, _)
SumCounts(keys, counts) ==
  IF keys = << >> THEN 0
  ELSE DictGet(counts, Head(keys)) + SumCounts(Tail(keys), counts)

\* mutant: the total runs over every key, not only the selected ones
TopActionCount_AllKeys(counts, k) == SumCounts(DictKeys(counts), counts)

\* top_action_count
TopActionCount(counts, k) == SumCounts(TopActions(counts, k), counts)

\* updated_actions: a['prob'] = tally / top_action_count, as <<tally, total>>
UpdatedActions(actions, counts, k) ==
  LET top == TopActions(counts, k) IN
  [i \in 1..Len(top) |->
     [DictGet(actions, top[i]) EXCEPT
        !.prob = <<DictGet(counts, top[i]), TopActionCount(counts, k)>>]]

RECURSIVE RoundDicts(_, _, _, _, _)
\* the for loop over a whole batch, from the dicts as they stand: the texts
\* are prefixed and tried one after the other; a ValueError ends the loop
RoundDicts(tag, prefix, batch, actions, counts) ==
  IF batch = << >>
  THEN [kind |-> "done", actions |-> actions, counts |-> counts]
  ELSE LET tried == SearchTry(tag, Prefixed(prefix, Head(batch)), actions, counts)
       IN IF tried.kind = "ValueError" THEN tried
          ELSE RoundDicts(tag, prefix, Tail(batch), tried.actions, tried.counts)

\* a whole round on one batch that holds a sample that parses: two new
\* dicts, the for loop, the selection
VoteOf(tag, prefix, batch, k) ==
  LET dicts == RoundDicts(tag, prefix, batch, << >>, << >>)
  IN UpdatedActions(dicts.actions, dicts.counts, k)

\* mutant: one parsed action is not enough to end the rounds
FoundAny_MoreThanOne(actions) == Len(actions) > 1

\* if len(all_actions) > 0
FoundAny(actions) == Len(actions) > 0

\* mutant: the vote gives up after its first round
SearchExhausted_AfterOne(count, limit) == count >= 1

\* if n >= lm_config.gen_config["max_retry"]
SearchExhausted(count, limit) == count >= limit

Max(a, b) == IF a > b THEN a ELSE b

\* mutant: the request is twice the branching factor, without the floor
NumOutputs_NoFloor(k) == k * 2

\* num_outputs=max(branching_factor * 2, 20)
NumOutputs(k) == Max(k * 2, 20)

\* the call, up to "n = 0"
SearchNextAction ==
  /\ UNCHANGED teacher
  /\ agent_type = "search"
  /\ pc = "idle"
  /\ \E t \in Trajectories, md \in MetaDatas, i \in Intents,
        imgs \in ImageLists, k \in BranchingFactors,
        multimodal_inputs \in BOOLEAN :
       /\ trajectory' = t
       /\ meta_data' = md
       /\ arg_intent' = i
       /\ images' = imgs
       /\ branching_factor' = k
       /\ intent' = SearchCaptionIntent(imgs, captioning_fn, i)
       /\ warned' = CaptionWarning(imgs, captioning_fn, multimodal_inputs)
  /\ EnterCall
  /\ pc' = "loop"
  /\ UNCHANGED config

\* the head of the while loop: one batched call_llm, n += 1, two new dicts.
\* The batch is read by the for loop, one text at a time; how many texts it
\* holds shows when the loop ends.
SearchQuery ==
  /\ UNCHANGED teacher
  /\ agent_type = "search"
  /\ pc = "loop"
  /\ queries' = queries + 1
  /\ num_outputs' = NumOutputs(branching_factor)
  /\ \/ \* call_llm raises
        /\ pc' = ClientFailure(n).pc
        /\ outcome' = ClientFailure(n).outcome
        /\ n' = ClientFailure(n).n
        /\ UNCHANGED <<all_actions, parsed_actions_count, history>>
     \/ /\ n' = n + 1
        /\ all_actions' = << >>
        /\ parsed_actions_count' = << >>
        /\ history' = << >>
        /\ pc' = "batch"
        /\ UNCHANGED outcome
  /\ UNCHANGED <<config, args, intent, warned, response, ret>>

\* one pass of the for loop: the batch holds one more text
SearchSample ==
  /\ UNCHANGED teacher
  /\ agent_type = "search"
  /\ pc = "batch"
  /\ Len(history) < MaxBatch
  /\ \E text \in ModelTexts :
       LET resp == Prefixed(force_prefix, text)
           tried == SearchTry(action_set_tag, resp, all_actions,
                              parsed_actions_count)
       IN
       /\ response' = resp
       /\ history' = Append(history, text)
       /\ all_actions' = tried.actions
       /\ parsed_actions_count' = tried.counts
       /\ IF tried.kind = "ValueError"
          THEN outcome' = "ValueError" /\ pc' = "done"
          ELSE UNCHANGED <<outcome, pc>>
  /\ UNCHANGED <<config, args, intent, warned, n, ret, queries, num_outputs>>

\* the batch holds no more text: break and select, retry, or give up
SearchEndRound ==
  /\ UNCHANGED teacher
  /\ agent_type = "search"
  /\ pc = "batch"
  /\ IF FoundAny(all_actions)
     THEN /\ ret' = UpdatedActions(all_actions, parsed_actions_count,
                                   branching_factor)
          /\ outcome' = "returned"
          /\ pc' = "done"
     ELSE IF SearchExhausted(n, max_retry)
     THEN IF response = Unbound
          THEN \* action["raw_prediction"] = response reads an unassigned local
               /\ outcome' = "UnboundLocalError"
               /\ pc' = "done"
               /\ UNCHANGED ret
          ELSE /\ ret' = <<[create_none_action EXCEPT
                              !.raw_prediction = response]>>
               /\ outcome' = "returned"
               /\ pc' = "done"
     ELSE /\ pc' = "loop"
          /\ UNCHANGED <<ret, outcome>>
  /\ UNCHANGED <<config, args, intent, warned, n, response,
                 all_actions, parsed_actions_count, queries, num_outputs,
                 history>>

NextSearch ==
  SearchNextAction \/ SearchQuery \/ SearchSample \/ SearchEndRound \/ Return

InitSearch == Init /\ agent_type = "search"

SpecSearch == InitSearch /\ [][NextSearch]_vars

\* a call that was started is run to its end
FairSpecSearch ==
  SpecSearch /\ WF_vars(SearchQuery) /\ WF_vars(SearchSample)
    /\ WF_vars(SearchEndRound)

\* one round on its own: a SearchAgent with max_retry = 1 and no captioner,
\* called without images, in the round of the call, call_llm having
\* answered and the batch not yet read
InitRound ==
  /\ agent_type = "search"
  /\ action_set_tag \in ActionSetTags
  /\ max_retry = 1
  /\ force_prefix \in ForcePrefixes
  /\ captioning_fn = FALSE
  /\ trajectory \in Trajectories
  /\ meta_data \in MetaDatas
  /\ arg_intent \in Intents
  /\ images = << >>
  /\ branching_factor \in BranchingFactors
  /\ intent = SearchCaptionIntent(images, captioning_fn, arg_intent)
  /\ warned = FALSE
  /\ pc = "batch"
  /\ n = 1
  /\ queries = 1
  /\ num_outputs = NumOutputs(branching_factor)
  /\ response = Unbound
  /\ all_actions = << >>
  /\ parsed_actions_count = << >>
  /\ ret = << >>
  /\ outcome = "running"
  /\ history = << >>
  /\ NoScript

\* the for loop and what follows it
NextRound == SearchSample \/ SearchEndRound

SpecRound == InitRound /\ [][NextRound]_vars

(***************************************************************************)
(* Both agents.                                                            *)
(***************************************************************************)
Next ==
  \/ PromptNextAction \/ PromptAttempt
  \/ SearchNextAction \/ SearchQuery \/ SearchSample \/ SearchEndRound
  \/ Return

Spec == Init /\ [][Next]_vars

FairSpec ==
  Spec /\ WF_vars(PromptAttempt) /\ WF_vars(SearchQuery)
    /\ WF_vars(SearchSample) /\ WF_vars(SearchEndRound)

(***************************************************************************)
(* TeacherForcingAgent: a script of lines, replayed one action per call.   *)
(* A line, like a text, is a sequence of tokens; " " is white space        *)
(* inside a line and "\n" ends a line of a script given as one string.     *)
(***************************************************************************)
ScriptLines ==
  { <<"click [1]">>,
    <<" ", "page.click", " ">>,
    <<"bogus">>,
    << >> }

\* the scripts of up to MaxLines lines
Scripts == UNION {[1..len -> ScriptLines] : len \in 0..MaxLines}

Whitespace == {" ", "\n"}

RECURSIVE LStrip(_)
LStrip(s) ==
  IF s # << >> /\ Head(s) \in Whitespace THEN LStrip(Tail(s)) ELSE s

RECURSIVE RStrip(_)
RStrip(s) ==
  IF s # << >> /\ s[Len(s)] \in Whitespace
  THEN RStrip(SubSeq(s, 1, Len(s) - 1)) ELSE s

\* str.strip()
Strip(s) == RStrip(LStrip(s))

RECURSIVE SplitFrom(_, _, _)
SplitFrom(s, cur, done) ==
  IF s = << >> THEN Append(done, cur)
  ELSE IF Head(s) = "\n" THEN SplitFrom(Tail(s), << >>, Append(done, cur))
  ELSE SplitFrom(Tail(s), Append(cur, Head(s)), done)

\* str.split("\n"): the empty string gives one empty line
Split(s) == SplitFrom(s, << >>, << >>)

RECURSIVE Join(_)
\* the script as one string, its lines separated by "\n"
Join(lines) ==
  IF lines = << >> THEN << >>
  ELSE IF Len(lines) = 1 THEN lines[1]
  ELSE lines[1] \o <<"\n">> \o Join(Tail(lines))

\* action_strs: the lines of the argument, each one stripped
ActionStrs(form, lines) ==
  LET split == IF form = "str" THEN Split(Strip(Join(lines))) ELSE lines
  IN [i \in 1..Len(split) |-> Strip(split[i])]

\* the string the action parser sees: a line of one word is that word, any
\* other line is in no grammar
LineText(a_str) == IF Len(a_str) = 1 THEN a_str[1] ELSE ""

\* the try block of set_actions on one line
TeacherTry(tag, a_str) ==
  LET made ==
        IF tag = NoAttribute
        THEN [kind |-> "AttributeError", action |-> NewAction("")]
        ELSE IF tag = "playwright"
        THEN create_playwright_action(LineText(a_str))
        ELSE IF tag = "id_accessibility_tree"
        THEN create_id_based_action(LineText(a_str))
        ELSE [kind |-> "ValueError", action |-> NewAction("")]
  IN IF made.kind = "action"
     THEN [kind |-> "action",
           action |-> [made.action EXCEPT !.raw_prediction = a_str]]
     ELSE IF made.kind = "ActionParsingError"
     THEN [kind |-> "action",
           action |-> [create_none_action EXCEPT !.raw_prediction = a_str]]
     ELSE made

RECURSIVE TeacherLoop(_, _, _)
\* the for loop of set_actions: kind is "stored", or the exception that
\* ended it
TeacherLoop(tag, action_strs, acc) ==
  IF action_strs = << >> THEN [kind |-> "stored", actions |-> acc]
  ELSE LET tried == TeacherTry(tag, Head(action_strs)) IN
       IF tried.kind = "action"
       THEN TeacherLoop(tag, Tail(action_strs), Append(acc, tried.action))
       ELSE [kind |-> tried.kind, actions |-> << >>]

\* mutant: the last action is taken, not the first
Pop_Last(list) ==
  [item |-> list[Len(list)], rest |-> SubSeq(list, 1, Len(list) - 1)]

\* self.actions.pop(0), on a list that is not empty
Pop(list) == [item |-> Head(list), rest |-> Tail(list)]

\* construct_agent: a TeacherForcingAgent, nothing set
InitTeacher ==
  /\ agent_type = "teacher_forcing"
  /\ action_set_tag = NoAttribute
  /\ max_retry = 1
  /\ force_prefix = << >>
  /\ captioning_fn = FALSE
  /\ pc = "idle"
  /\ trajectory \in Trajectories
  /\ meta_data \in MetaDatas
  /\ arg_intent \in Intents
  /\ images = << >>
  /\ branching_factor = 1
  /\ intent = arg_intent
  /\ warned = FALSE
  /\ FreshLocals
  /\ NoScript

set_action_set_tag ==
  /\ agent_type = "teacher_forcing"
  /\ \E tag \in ActionSetTags : action_set_tag' = tag
  /\ UNCHANGED <<agent_type, max_retry, force_prefix, captioning_fn, pc, args,
                 intent, warned, n, response, all_actions,
                 parsed_actions_count, ret, outcome, queries, num_outputs,
                 teacher, history>>

\* set_actions on a list of lines or on one string; self.actions is
\* assigned after the loop, so an exception leaves it as it was
set_actions ==
  /\ agent_type = "teacher_forcing"
  /\ \E form \in {"list", "str"}, lines \in Scripts :
       LET looped == TeacherLoop(action_set_tag, ActionStrs(form, lines), << >>)
       IN IF looped.kind = "stored"
          THEN /\ self_actions' = [bound |-> TRUE, value |-> looped.actions]
               /\ action_seq' = [form |-> form, lines |-> lines,
                                 tag |-> action_set_tag]
               /\ calls' = 0
               /\ ret' = << >>
               /\ outcome' = "stored"
          ELSE /\ outcome' = looped.kind
               /\ UNCHANGED <<teacher, ret>>
  /\ UNCHANGED <<config, pc, args, intent, warned, n, response, all_actions,
                 parsed_actions_count, queries, num_outputs, history>>

\* TeacherForcingAgent.next_action
TeacherNextAction ==
  /\ agent_type = "teacher_forcing"
  /\ IF ~self_actions.bound
     THEN /\ outcome' = "AttributeError"
          /\ ret' = << >>
          /\ UNCHANGED teacher
     ELSE IF self_actions.value = << >>
     THEN /\ outcome' = "IndexError"
          /\ ret' = << >>
          /\ UNCHANGED teacher
     ELSE /\ ret' = <<Pop(self_actions.value).item>>
          /\ self_actions' = [self_actions EXCEPT
                                !.value = Pop(self_actions.value).rest]
          /\ calls' = calls + 1
          /\ outcome' = "returned"
          /\ UNCHANGED action_seq
  /\ UNCHANGED <<config, pc, args, intent, warned, n, response, all_actions,
                 parsed_actions_count, queries, num_outputs, history>>

NextTeacher == set_action_set_tag \/ set_actions \/ TeacherNextAction

SpecTeacher == InitTeacher /\ [][NextTeacher]_vars

(***************************************************************************)
(* Vocabulary of the properties, read off the texts the model gave         *)
(* (history) and not off the engine's own dicts.                           *)
(***************************************************************************)
Recognized(tag) == tag \in {"id_accessibility_tree", "playwright", "som"}

GrammarOf(tag) == IF tag = "playwright" THEN PlaywrightGrammar ELSE IdGrammar

\* the key of a text: what extract_action finds in the prefixed text
KeyOf(text) == extract_action(force_prefix \o text)

\* the text parses into an action under the agent's tag
ParsesOK(text) ==
  /\ KeyOf(text).ok
  /\ Recognized(action_set_tag)
  /\ KeyOf(text).value \in GrammarOf(action_set_tag)

\* the text makes extract_action or the action parser raise ActionParsingError
ParseFails(text) ==
  \/ ~KeyOf(text).ok
  \/ Recognized(action_set_tag) /\ KeyOf(text).value \notin GrammarOf(action_set_tag)

\* the action a text parses into, with its raw text
ParsedAction(text) ==
  [NewAction(KeyOf(text).value) EXCEPT !.raw_prediction = force_prefix \o text]

\* the sentinel none action carrying the raw text of a text
NoneAction(text) ==
  [NewAction("") EXCEPT !.raw_prediction = force_prefix \o text]

IsNone(a) == a.action_type = "NONE"

\* vote mode: the samples of the round that parse, their keys and tallies
ParsedIdx == {i \in 1..Len(history) : ParsesOK(history[i])}
ParsedKeys == {KeyOf(history[i]).value : i \in ParsedIdx}
Tally(key) == Cardinality({i \in ParsedIdx : KeyOf(history[i]).value = key})
FirstSeen(key) ==
  CHOOSE i \in ParsedIdx :
    /\ KeyOf(history[i]).value = key
    /\ \A j \in ParsedIdx : KeyOf(history[j]).value = key => i <= j
RetKey(i) == extract_action(ret[i].raw_prediction).value
RetKeys == {RetKey(i) : i \in 1..Len(ret)}
Ahead(k1, k2) ==
  \/ Tally(k1) > Tally(k2)
  \/ Tally(k1) = Tally(k2) /\ FirstSeen(k1) < FirstSeen(k2)

\* a vote-mode call that ended on a round with a parsed sample
VoteReturned ==
  /\ agent_type = "search"
  /\ pc = "done"
  /\ ParsedIdx # {}

RECURSIVE SumProb(_)
SumProb(actions) ==
  IF actions = << >> THEN 0 ELSE Head(actions).prob[1] + SumProb(Tail(actions))

(***************************************************************************)
(* C1. Single-shot: a call never issues more than max_retry queries, a     *)
(* started call ends, and when the tag is recognised and the client        *)
(* answered every query, it ends by returning exactly one Action.          *)
(***************************************************************************)
C1_SingleShotTerminates ==
  /\ [](agent_type = "prompt" => queries <= max_retry)
  /\ [](agent_type = "prompt" /\ pc = "done" /\ Recognized(action_set_tag)
          /\ outcome # "ClientError"
        => outcome = "returned" /\ Len(ret) = 1
             /\ (IsNone(ret[1]) \/ ret[1] = ParsedAction(history[Len(history)])))
  /\ (agent_type = "prompt" /\ pc = "loop") ~> (pc = "done")

\* a call that used its whole budget of two attempts and returned
C1_Witness ==
  /\ agent_type = "prompt"
  /\ outcome = "returned"
  /\ max_retry = 2
  /\ queries = max_retry

(***************************************************************************)
(* C2. Single-shot: when the first text parses, the call issues exactly    *)
(* one query and returns the action parsed from that text.                 *)
(***************************************************************************)
C2_FirstParseOneQuery ==
  (agent_type = "prompt" /\ Len(history) >= 1 /\ ParsesOK(history[1]))
    => /\ queries = 1
       /\ pc = "done"
       /\ outcome = "returned"
       /\ ret = <<ParsedAction(history[1])>>

\* the first text parsed although a retry was to be had
C2_Witness ==
  /\ agent_type = "prompt"
  /\ pc = "done"
  /\ max_retry = 2
  /\ Len(history) = 1
  /\ ParsesOK(history[1])
  /\ force_prefix # << >>

(***************************************************************************)
(* C3. Single-shot: when max_retry attempts in a row fail to parse,        *)
(* max_retry queries were issued and the call returns the none action      *)
(* whose raw text is the prefixed text of the last attempt.                *)
(***************************************************************************)
C3_AllFailNoneWithLastRaw ==
  (agent_type = "prompt" /\ Len(history) = max_retry
     /\ \A i \in 1..Len(history) : ParseFails(history[i]))
    => /\ queries = max_retry
       /\ pc = "done"
       /\ outcome = "returned"
       /\ ret = <<NoneAction(history[max_retry])>>

\* two failed attempts with different texts, under a force prefix
C3_Witness ==
  /\ agent_type = "prompt"
  /\ max_retry = 2
  /\ Len(history) = 2
  /\ \A i \in 1..2 : ParseFails(history[i])
  /\ history[1] # history[2]
  /\ force_prefix # << >>
  /\ outcome = "returned"

(***************************************************************************)
(* C4. Vote mode: a round with a parsed sample returns                     *)
(* min(k, number of distinct parsed keys) actions, with distinct keys.     *)
(***************************************************************************)
C4_VoteCount ==
  VoteReturned
    => /\ outcome = "returned"
       /\ Len(ret) = IF branching_factor < Cardinality(ParsedKeys)
                     THEN branching_factor ELSE Cardinality(ParsedKeys)
       /\ \A i, j \in 1..Len(ret) : i # j => RetKey(i) # RetKey(j)
       /\ RetKeys \subseteq ParsedKeys

\* k cuts the list: more distinct keys than k
C4_Witness ==
  /\ VoteReturned
  /\ outcome = "returned"
  /\ Cardinality(ParsedKeys) > branching_factor
  /\ Len(ret) = branching_factor

(***************************************************************************)
(* C5. Vote mode: the confidences of the returned actions share one        *)
(* denominator T and their tallies add up to T, so they sum to 1.          *)
(***************************************************************************)
C5_ConfidencesSumToOne ==
  VoteReturned
    => /\ \A i \in 1..Len(ret) :
            /\ Len(ret[i].prob) = 2
            /\ ret[i].prob[1] >= 1
            /\ ret[i].prob[2] = ret[1].prob[2]
       /\ SumProb(ret) = ret[1].prob[2]

\* k cuts the list, so some parsed samples are outside the returned set
C5_Witness ==
  /\ VoteReturned
  /\ outcome = "returned"
  /\ Cardinality(ParsedKeys) > Len(ret)
  /\ Cardinality(ParsedIdx) = 3
  /\ SumProb(ret) = 2

(***************************************************************************)
(* C6. Vote mode: the returned list is in descending tally order, ties in  *)
(* first-seen order, and every key left out comes behind every key         *)
(* returned in that order.                                                 *)
(***************************************************************************)
C6_OrderedByTallyThenFirstSeen ==
  VoteReturned
    => /\ \A i, j \in 1..Len(ret) : i < j => Ahead(RetKey(i), RetKey(j))
       /\ \A key \in ParsedKeys \ RetKeys :
            \A i \in 1..Len(ret) : Ahead(RetKey(i), key)

\* k cuts a tie: the key seen first is kept, the one seen later left out
C6_Witness ==
  /\ VoteReturned
  /\ outcome = "returned"
  /\ Len(ret) = 1
  /\ \E key \in ParsedKeys \ RetKeys :
       Tally(key) = Tally(RetKey(1)) /\ FirstSeen(RetKey(1)) < FirstSeen(key)

(***************************************************************************)
(* C7. Caption enrichment: with two images captioned "A cat" and "A dog"   *)
(* the intent handed to prompt construction is                             *)
(* 'Input image 1: "A cat", input image 2: "A dog"', a newline, and        *)
(* 'Intent: <original>': nothing stands between the last caption's         *)
(* closing quote and the newline.                                          *)
(***************************************************************************)
C7_CaptionedIntent ==
  (pc # "idle" /\ captioning_fn /\ images = <<"cat.png", "dog.png">>)
    => intent = "Input image 1: \"A cat\", input image 2: \"A dog\""
                  \o "\nIntent: " \o arg_intent

(***************************************************************************)
(* C8. Vote mode: when max_retry rounds in a row give no parsed sample,    *)
(* max_retry batched queries were issued and the call returns the list     *)
(* holding the none action alone.                                          *)
(***************************************************************************)
C8_ZeroParsedRoundsEndInNone ==
  (agent_type = "search" /\ pc = "done" /\ n = max_retry /\ ParsedIdx = {}
     /\ outcome \notin {"ClientError", "ValueError"})
    => /\ queries = max_retry
       /\ outcome = "returned"
       /\ Len(ret) = 1
       /\ IsNone(ret[1])

(***************************************************************************)
(* C9. Neither policy lets a parse failure reach its caller: under a       *)
(* recognised tag, whatever texts the model gives, next_action ends by     *)
(* returning parsed actions or the none action.                            *)
(***************************************************************************)
C9_EndsByReturning ==
  (pc = "done" /\ Recognized(action_set_tag) /\ outcome # "ClientError")
    => /\ outcome = "returned"
       /\ Len(ret) >= 1

(***************************************************************************)
(* C10, as claimed. A failure of the model client never reaches the        *)
(* caller: it is counted as an attempt and retried, or ends in the none    *)
(* action.                                                                 *)
(***************************************************************************)
C10_ClientFailureNeverEscapes == outcome # "ClientError"

(***************************************************************************)
(* C10, amended. A failure of the model client is not caught: the call     *)
(* ends at once with the failure reaching the caller, nothing is returned, *)
(* the attempt counter is not advanced by the failed query, and no query   *)
(* ever follows a failed one (while the call runs, every query issued so   *)
(* far was answered and counted).                                          *)
(***************************************************************************)
C10_ClientFailureEscapes ==
  /\ outcome = "ClientError"
       => pc = "done" /\ ret = << >> /\ queries = n + 1 /\ n < max_retry
  /\ pc \in {"loop", "batch"} => outcome = "running" /\ queries = n

\* the client fails on the second query, after a first attempt that did not parse
C10_Witness ==
  /\ outcome = "ClientError"
  /\ n = 1
  /\ queries = 2

(***************************************************************************)
(* C11, as claimed. Under a tag that is not one of id_accessibility_tree,  *)
(* playwright, som, every call the client answers ends in the fatal        *)
(* configuration error, whatever the model returned, and never returns an  *)
(* action.  (The call of C20 that ends in UnboundLocalError is left        *)
(* aside: it returns nothing either.)                                      *)
(***************************************************************************)
C11_UnsupportedTagAlwaysFatal ==
  (pc = "done" /\ ~Recognized(action_set_tag)
     /\ outcome \notin {"ClientError", "UnboundLocalError"})
    => outcome = "ValueError" /\ ret = << >>

(***************************************************************************)
(* C12. The none action is returned only at exhaustion: the counter has    *)
(* reached max_retry, max_retry queries were issued, and no text of the    *)
(* call parsed (single-shot: no attempt; vote mode: no sample of the       *)
(* round just run, whenever a further round is about to start or the call  *)
(* has ended in the none action).  A missing captioner gives the warning   *)
(* only: the intent is left as the caller gave it and the call goes        *)
(* on to query the model.                                                  *)
(***************************************************************************)
C12_NoneOnlyAfterExhaustion ==
  /\ (outcome = "returned" /\ \E i \in 1..Len(ret) : IsNone(ret[i]))
       => /\ Len(ret) = 1
          /\ n = max_retry
          /\ queries = max_retry
          /\ \A i \in 1..Len(history) : ParseFails(history[i])
          /\ agent_type = "prompt" => Len(history) = max_retry
  /\ (agent_type = "search" /\ pc = "loop")
       => \A i \in 1..Len(history) : ParseFails(history[i])
  /\ warned
       => /\ intent = arg_intent
          /\ pc \in {"loop", "batch", "done"}
          /\ pc = "done" => queries >= 1

\* the warning was printed and the call still returned a parsed action, at
\* its first attempt
C12_Witness ==
  /\ warned
  /\ outcome = "returned"
  /\ ~IsNone(ret[1])
  /\ max_retry = 2
  /\ n = 1

(***************************************************************************)
(* Sample order: the batch of the round in another order of arrival.       *)
(***************************************************************************)
Perms(len) ==
  {p \in [1..len -> 1..len] : \A i, j \in 1..len : i # j => p[i] # p[j]}

Permuted(batch, p) == [i \in 1..Len(batch) |-> batch[p[i]]]

\* the result of the round had its samples arrived in the order p
Reordered(p) ==
  VoteOf(action_set_tag, force_prefix, Permuted(history, p), branching_factor)

\* two parsed keys of the round have the same tally
TiedTallies ==
  \E k1, k2 \in ParsedKeys : k1 # k2 /\ Tally(k1) = Tally(k2)

SameKeyAs(a, b) ==
  a.action_type = b.action_type /\ a.element_id = b.element_id

(***************************************************************************)
(* C13, as claimed. The result of a vote round does not depend on the      *)
(* order in which its samples arrived: every permutation of the batch      *)
(* gives the same actions, in the same order, with the same confidences.   *)
(***************************************************************************)
C13_OrderIndependent ==
  (VoteReturned /\ outcome = "returned")
    => \A p \in Perms(Len(history)) : Reordered(p) = ret

(***************************************************************************)
(* C13, amended. What does not depend on arrival order is what the counts  *)
(* decide: the number of returned actions, the confidences position by     *)
(* position, and, when no two parsed keys have the same tally, the         *)
(* returned keys and their order.  Keys of equal tally come in first-seen  *)
(* order and each action carries the raw text of the first sample of its   *)
(* key, so these follow the order of arrival.                              *)
(***************************************************************************)
C13_CountsOrderIndependent ==
  (VoteReturned /\ outcome = "returned")
    => /\ ret = VoteOf(action_set_tag, force_prefix, history, branching_factor)
       /\ \A p \in Perms(Len(history)) : \A other \in {Reordered(p)} :
            /\ Len(other) = Len(ret)
            /\ \A i \in 1..Len(ret) : other[i].prob = ret[i].prob
            /\ ~TiedTallies
                 => \A i \in 1..Len(ret) : SameKeyAs(other[i], ret[i])
            /\ \A i \in 1..Len(other) :
                 \E j \in 1..Len(history) :
                   /\ other[i].raw_prediction = force_prefix \o history[p[j]]
                   /\ \A h \in 1..(j - 1) :
                        ~(ParsesOK(history[p[h]])
                          /\ KeyOf(history[p[h]]) = KeyOf(history[p[j]]))

\* three samples, two keys with tallies 2 and 1, and an order of arrival
\* that changes the raw text of a returned action
C13_Witness ==
  /\ VoteReturned
  /\ outcome = "returned"
  /\ Len(history) = 3
  /\ Cardinality(ParsedKeys) = 2
  /\ ~TiedTallies
  /\ \E p \in Perms(Len(history)) : Reordered(p) # ret

(***************************************************************************)
(* C14, as claimed. Every action of the list a vote-mode call returns      *)
(* carries a confidence tally / T with 0 < tally <= T, after a successful  *)
(* round and at exhaustion alike; the action a single-shot call returns    *)
(* carries none.                                                           *)
(***************************************************************************)
C14_ConfidenceInUnitInterval ==
  /\ (agent_type = "search" /\ outcome = "returned")
       => \A i \in 1..Len(ret) :
            /\ ret[i].prob # NoProb
            /\ 0 < ret[i].prob[1]
            /\ ret[i].prob[1] <= ret[i].prob[2]
  /\ (agent_type = "prompt" /\ outcome = "returned")
       => \A i \in 1..Len(ret) : ret[i].prob = NoProb

(***************************************************************************)
(* C15. Vote mode: every round issues one batched query, asking for 20     *)
(* samples when k <= 10 and for 2k samples when k > 10, and the number of  *)
(* queries of a call is the number of rounds it ran (a query the client    *)
(* failed on started no round).                                            *)
(***************************************************************************)
C15_OneBatchedQueryPerRound ==
  agent_type = "search"
    => /\ queries >= 1
            => num_outputs = IF branching_factor <= 10 THEN 20
                             ELSE 2 * branching_factor
       /\ outcome # "ClientError" => queries = n
       /\ outcome = "ClientError" => queries = n + 1
       /\ pc = "batch" => queries >= 1

\* the second round of a call with a branching factor above 10
C15_Witness ==
  /\ agent_type = "search"
  /\ pc = "batch"
  /\ branching_factor > 10
  /\ n = 2
  /\ queries = 2
  /\ num_outputs = 2 * branching_factor

(***************************************************************************)
(* C16. Vote mode: the first round with a parsed sample is the last one.   *)
(* From a round that holds a parsed sample no step issues a query or goes  *)
(* back to the head of the loop; the round ends in the return of           *)
(* min(k, distinct parsed keys) actions, fewer than k when there are not   *)
(* k keys, each carrying the text of a parsed sample of this round; and a  *)
(* further query is only ever issued after a round without parsed sample.  *)
(***************************************************************************)
C16_FirstParsedRoundIsFinal ==
  /\ [][(agent_type = "search" /\ pc = "batch" /\ ParsedIdx # {})
          => /\ queries' = queries
             /\ n' = n
             /\ pc' \in {"batch", "done"}
             /\ pc' = "done"
                  => /\ outcome' = "returned"
                     /\ Len(ret') =
                          IF branching_factor < Cardinality(ParsedKeys)
                          THEN branching_factor ELSE Cardinality(ParsedKeys)
                     /\ \A i \in 1..Len(ret') :
                          \E j \in ParsedIdx :
                            ret'[i].raw_prediction = force_prefix \o history[j]
        ]_vars
  /\ []((agent_type = "search" /\ pc = "loop") => ParsedIdx = {})

\* the first round of a call that could have run a second one gave fewer
\* distinct actions than k, and the call returned them
C16_Witness ==
  /\ VoteReturned
  /\ outcome = "returned"
  /\ max_retry = 2
  /\ n = 1
  /\ queries = 1
  /\ Len(ret) < branching_factor

(***************************************************************************)
(* C17. Every returned action carries a raw text, the force-prefixed text  *)
(* of the model that produced it.  Single-shot: the text of the last       *)
(* attempt.  Vote mode, after a round with a parsed sample: the text of    *)
(* the first sample of the round with the action's key, while the later    *)
(* samples of that key are in its tally only; at exhaustion: a sample of   *)
(* the call.                                                               *)
(***************************************************************************)
C17_RawTextOfFirstSample ==
  outcome = "returned"
    => /\ \A i \in 1..Len(ret) :
            /\ ret[i].raw_prediction # Unbound
            /\ \E text \in ModelTexts :
                 ret[i].raw_prediction = force_prefix \o text
       /\ agent_type = "prompt"
            => ret[1].raw_prediction = force_prefix \o history[Len(history)]
       /\ VoteReturned
            => \A i \in 1..Len(ret) :
                 \E key \in ParsedKeys :
                   /\ ret[i].action_type = ActionTypeOf(key)
                   /\ ret[i].element_id = ElementOf(key)
                   /\ ret[i].raw_prediction =
                        force_prefix \o history[FirstSeen(key)]
                   /\ ret[i].prob[1] = Tally(key)

\* a key seen twice with two different texts, the second one last in the
\* batch: the action carries the first text and a tally of 2
C17_Witness ==
  /\ VoteReturned
  /\ outcome = "returned"
  /\ force_prefix # << >>
  /\ Len(history) = 3
  /\ history[3] # history[FirstSeen(RetKey(1))]
  /\ KeyOf(history[3]).value = RetKey(1)
  /\ ret[1].prob[1] = 2

(***************************************************************************)
(* The scenario of the confidence rule: tallies A:7, B:5, C:4, D:4, the    *)
(* keys first seen in that order, as the two dicts stand after the for     *)
(* loop.                                                                   *)
(***************************************************************************)
ScenarioCounts == <<<<"A", 7>>, <<"B", 5>>, <<"C", 4>>, <<"D", 4>>>>

ScenarioActions ==
  [i \in 1..Len(ScenarioCounts) |->
     <<ScenarioCounts[i][1],
       [NewAction(ScenarioCounts[i][1]) EXCEPT
          !.raw_prediction = <<ScenarioCounts[i][1]>>]>>]

ScenarioResult == UpdatedActions(ScenarioActions, ScenarioCounts, 3)

ScenarioKeys ==
  [i \in 1..Len(ScenarioResult) |-> ScenarioResult[i].raw_prediction]

ScenarioProbs == [i \in 1..Len(ScenarioResult) |-> ScenarioResult[i].prob]

RECURSIVE TallySum(_)
\* the tallies of a set of keys, added up
TallySum(keys) ==
  IF keys = {} THEN 0
  ELSE LET key == CHOOSE k \in keys : TRUE
       IN Tally(key) + TallySum(keys \ {key})

(***************************************************************************)
(* C18. Vote mode: the confidence of a returned action is its own tally,   *)
(* the number of samples of the final round that parsed to its key, over   *)
(* T, the sum of the tallies of the returned keys only.  With k = 3 and    *)
(* tallies A:7, B:5, C:4, D:4 the result is A, B, C with 7/16, 5/16,       *)
(* 4/16.                                                                   *)
(***************************************************************************)
C18_ConfidenceIsTallyOverT ==
  /\ VoteReturned
       => \A T \in {TallySum(RetKeys)} : \A i \in 1..Len(ret) :
            ret[i].prob = <<Tally(RetKey(i)), T>>
  /\ ScenarioKeys = <<<<"A">>, <<"B">>, <<"C">>>>
  /\ ScenarioProbs = <<<<7, 16>>, <<5, 16>>, <<4, 16>>>>

\* three samples, one that does not parse and two with different keys, and
\* k = 1: the confidence is 1/1, T being neither the 2 parsed samples nor
\* the 3 samples of the batch
C18_Witness ==
  /\ VoteReturned
  /\ outcome = "returned"
  /\ Len(history) = 3
  /\ Cardinality(ParsedIdx) = 2
  /\ Cardinality(ParsedKeys) = 2
  /\ branching_factor = 1
  /\ ret[1].prob = <<1, 1>>

(***************************************************************************)
(* What a call must give, worked out from the texts the model gave in      *)
(* this call and from nothing else.                                        *)
(***************************************************************************)
RECURSIVE PromptExpected(_, _)
\* single-shot, from attempt i on
PromptExpected(texts, i) ==
  IF i > Len(texts) THEN [outcome |-> "running", ret |-> << >>]
  ELSE IF ParsesOK(texts[i])
  THEN [outcome |-> "returned", ret |-> <<ParsedAction(texts[i])>>]
  ELSE IF ~ParseFails(texts[i])
  THEN [outcome |-> "ValueError", ret |-> << >>]
  ELSE IF i >= max_retry
  THEN [outcome |-> "returned", ret |-> <<NoneAction(texts[i])>>]
  ELSE PromptExpected(texts, i + 1)

(***************************************************************************)
(* C19. A call writes nothing of its caller's and keeps nothing: no step   *)
(* changes the agent's fields; from the call's start to its end the        *)
(* trajectory, the meta_data and the caller's intent are as they were      *)
(* passed, the enriched intent being a local of the call; between calls    *)
(* nothing of a call is left; and what a call gives is decided by its      *)
(* inputs and the texts the model gave in it, whatever calls came before.  *)
(***************************************************************************)
C19_NoStateBetweenCalls ==
  /\ [][/\ UNCHANGED config
        /\ pc # "idle" => UNCHANGED <<trajectory, meta_data, arg_intent>>
        /\ (pc # "idle" /\ pc' # "idle") => UNCHANGED <<images, intent>>
       ]_vars
  /\ [](pc = "idle" => FreshLocals /\ intent = arg_intent /\ ~warned)
  /\ [](pc # "idle" => arg_intent \in Intents)
  /\ []((pc = "loop" /\ queries = 0)
          => intent = IF Len(images) > 0 /\ captioning_fn
                      THEN CaptionLoop(images, 0, "") \o "\nIntent: "
                             \o arg_intent
                      ELSE arg_intent)
  /\ []((agent_type = "prompt" /\ outcome # "ClientError")
          => /\ outcome = PromptExpected(history, 1).outcome
             /\ ret = PromptExpected(history, 1).ret)
  /\ []((agent_type = "prompt" /\ outcome = "ClientError")
          => PromptExpected(history, 1).outcome = "running" /\ ret = << >>)
  /\ []((VoteReturned /\ outcome = "returned")
          => ret = VoteOf(action_set_tag, force_prefix, history,
                          branching_factor))

\* a call that worked on an enriched intent has returned a parsed action at
\* its second attempt; the caller's intent is the one it passed
C19_Witness ==
  /\ pc = "done"
  /\ outcome = "returned"
  /\ intent # arg_intent
  /\ arg_intent \in Intents
  /\ n = 2
  /\ ~IsNone(ret[1])

(***************************************************************************)
(* C20, as claimed. Vote mode, at exhaustion: whatever the final batch     *)
(* holds, no sample or some, the call returns the none action alone and    *)
(* raises nothing, and when the final batch holds a sample the raw text    *)
(* of the none action is the prefixed last sample of that batch.           *)
(***************************************************************************)
C20_ExhaustionReturnsNone ==
  (agent_type = "search" /\ pc = "done" /\ n = max_retry /\ ParsedIdx = {}
     /\ outcome \notin {"ClientError", "ValueError"})
    => /\ outcome = "returned"
       /\ Len(ret) = 1
       /\ IsNone(ret[1])
       /\ ret[1].raw_prediction # Unbound
       /\ Len(history) > 0
            => ret[1] = NoneAction(history[Len(history)])

RECURSIVE SumValues(_)
\* the values of a dict, added up
SumValues(d) == IF d = << >> THEN 0 ELSE Head(d)[2] + SumValues(Tail(d))

(***************************************************************************)
(* C21. Vote mode, in the for loop and after it: once a sample has been    *)
(* processed the tally map and the representative-action map hold the      *)
(* same keys, each key once, every tally is at least 1, and the tallies    *)
(* add up to the number of samples processed so far that parsed, which     *)
(* is never more than the number of samples read from the batch.           *)
(***************************************************************************)
C21_TallyAndRepresentativeMaps ==
  (agent_type = "search" /\ pc \in {"batch", "done"})
    => /\ DictKeys(parsed_actions_count) = DictKeys(all_actions)
       /\ \A i, j \in 1..Len(all_actions) :
            i # j => all_actions[i][1] # all_actions[j][1]
       /\ {all_actions[i][1] : i \in 1..Len(all_actions)} = ParsedKeys
       /\ \A i \in 1..Len(parsed_actions_count) : parsed_actions_count[i][2] >= 1
       /\ SumValues(parsed_actions_count) = Cardinality(ParsedIdx)
       /\ SumValues(parsed_actions_count) <= Len(history)

\* in the middle of a round: three samples read, one did not parse, the
\* other two gave one key, whose tally is 2
C21_Witness ==
  /\ agent_type = "search"
  /\ pc = "batch"
  /\ Len(history) = 3
  /\ Cardinality(ParsedIdx) = 2
  /\ Len(all_actions) = 1
  /\ parsed_actions_count[1][2] = 2

(***************************************************************************)
(* The fixed-script agent: what a script must give, line by line.          *)
(***************************************************************************)
\* a line without its outer white space
StrippedLine(line) ==
  IF line = <<" ", "page.click", " ">> THEN <<"page.click">> ELSE line

BlankLine(line) == line = << >>

\* the line is an action of the grammar of the tag
LineParses(tag, line) ==
  \/ tag = "id_accessibility_tree" /\ StrippedLine(line) = <<"click [1]">>
  \/ tag = "playwright" /\ StrippedLine(line) = <<"page.click">>

ScriptedAction(tag, line) ==
  [NewAction(IF LineParses(tag, line) THEN StrippedLine(line)[1] ELSE "")
     EXCEPT !.raw_prediction = StrippedLine(line)]

\* the lines of the stored script: those of a list as they are; a string
\* has lost its blank first and last lines to the strip of the whole string
\* (and is one empty line when nothing is left)
RECURSIVE TrimFront(_)
TrimFront(lines) ==
  IF lines # << >> /\ BlankLine(Head(lines)) THEN TrimFront(Tail(lines))
  ELSE lines

RECURSIVE TrimBack(_)
TrimBack(lines) ==
  IF lines # << >> /\ BlankLine(lines[Len(lines)])
  THEN TrimBack(SubSeq(lines, 1, Len(lines) - 1)) ELSE lines

StoredLines ==
  IF action_seq.form = "list" THEN action_seq.lines
  ELSE IF TrimBack(TrimFront(action_seq.lines)) = << >> THEN << << >> >>
  ELSE TrimBack(TrimFront(action_seq.lines))

\* the actions the stored script stands for
Scripted ==
  [i \in 1..Len(StoredLines) |-> ScriptedAction(action_seq.tag, StoredLines[i])]

(***************************************************************************)
(* C22. The fixed-script agent replays its script in order.  After         *)
(* set_actions has stored a script of n lines (under one of its two tags)  *)
(* the list holds n actions, one per line, a line that does not parse      *)
(* giving a none action, each with its stripped line as raw text; the      *)
(* i-th next_action call returns the i-th of them and takes it off the     *)
(* list; a call on the emptied list fails and returns nothing.             *)
(***************************************************************************)
C22_ScriptReplayedInOrder ==
  (agent_type = "teacher_forcing" /\ self_actions.bound)
    => /\ Len(StoredLines) > 0
            => action_seq.tag \in {"playwright", "id_accessibility_tree"}
       /\ action_seq.form = "list" => Len(StoredLines) = Len(action_seq.lines)
       /\ calls <= Len(Scripted)
       /\ Len(self_actions.value) + calls = Len(Scripted)
       /\ self_actions.value = SubSeq(Scripted, calls + 1, Len(Scripted))
       /\ outcome = "stored" => calls = 0 /\ ret = << >>
       /\ outcome = "returned" => calls >= 1 /\ ret = <<Scripted[calls]>>
       /\ outcome = "IndexError"
            => /\ calls = Len(Scripted)
               /\ self_actions.value = << >>
               /\ ret = << >>

\* a script of two lines given as one string, the first an action with
\* white space around it, the second not an action: two calls returned and
\* the third failed
C22_Witness ==
  /\ agent_type = "teacher_forcing"
  /\ self_actions.bound
  /\ action_seq = [form |-> "str",
                   lines |-> << <<" ", "page.click", " ">>, <<"bogus">> >>,
                   tag |-> "playwright"]
  /\ calls = 2
  /\ outcome = "IndexError"
====
